---- MODULE Spec2Model ----
(***************************************************************************)
(* A model of scrapit's bootstrap layer (src/scrapit/main.py): the         *)
(* process-wide logging configuration (setup_logging), the assembly of     *)
(* the served application (create_app) and the CLI command run, which      *)
(* parses the --settings string, validates the project path, assembles    *)
(* the application and hands it to uvicorn.run.                            *)
(*                                                                         *)
(* Python strings are sequences of one-character strings.  Two characters  *)
(* outside ASCII are written by name: "SUP2" is U+00B2 SUPERSCRIPT TWO (a  *)
(* character for which str.isdigit() is true and int() raises) and "AR3"   *)
(* is U+0663 ARABIC-INDIC DIGIT THREE (a decimal digit outside ASCII).     *)
(* Optional[T] is a sequence of length at most one: None is << >>.         *)
(***************************************************************************)
EXTENDS Integers, Sequences, FiniteSets, TLC

VARIABLES
    port, host, project, settings, timeout, debug, include_logs,
    cwd, dirs, files,
    logging,
    pc, settings_list, idx, additional_settings, stores,
    project_path, app, router_calls, server, exit_code, raised, trace

args == <<port, host, project, settings, timeout, debug, include_logs>>
env == <<cwd, dirs, files>>
locals == <<settings_list, idx, additional_settings, stores, project_path,
            app, router_calls, server, exit_code, raised>>
vars == <<args, env, logging, pc, locals, trace>>

None == << >>
Some(v) == <<v>>

----------------------------------------------------------------------------
(* Python str methods, as the code uses them                               *)

Whitespace == {" ", "TAB"}
AsciiDigits == {"0", "1", "2", "3", "4", "5", "6", "7", "8", "9"}
\* Characters of Unicode category Nd: int() and float() accept them.
DecimalChars == AsciiDigits \cup {"AR3"}
\* Characters for which str.isdigit() is true: Nd and the other characters
\* of Numeric_Type=Digit, such as the superscript digits.
IsDigitChars == DecimalChars \cup {"SUP2"}

DigitValue(c) ==
    CASE c = "0" -> 0 [] c = "1" -> 1 [] c = "2" -> 2 [] c = "3" -> 3
      [] c = "4" -> 4 [] c = "5" -> 5 [] c = "6" -> 6 [] c = "7" -> 7
      [] c = "8" -> 8 [] c = "9" -> 9 [] c = "AR3" -> 3

\* c in s
Contains(s, c) == \E i \in 1..Len(s) : s[i] = c

FirstIndex(s, c) ==
    CHOOSE i \in 1..Len(s) : s[i] = c /\ \A j \in 1..(i - 1) : s[j] # c

\* s.split(c, 1)
SplitOnce(s, c) ==
    IF Contains(s, c)
    THEN <<SubSeq(s, 1, FirstIndex(s, c) - 1),
           SubSeq(s, FirstIndex(s, c) + 1, Len(s))>>
    ELSE <<s>>

\* s.split(c)
RECURSIVE Split(_, _)
Split(s, c) ==
    IF Contains(s, c)
    THEN <<SubSeq(s, 1, FirstIndex(s, c) - 1)>>
         \o Split(SubSeq(s, FirstIndex(s, c) + 1, Len(s)), c)
    ELSE <<s>>

RECURSIVE LStrip(_)
LStrip(s) ==
    IF Len(s) > 0 /\ s[1] \in Whitespace THEN LStrip(Tail(s)) ELSE s

RECURSIVE RStrip(_)
RStrip(s) ==
    IF Len(s) > 0 /\ s[Len(s)] \in Whitespace
    THEN RStrip(SubSeq(s, 1, Len(s) - 1))
    ELSE s

\* s.strip()
Strip(s) == RStrip(LStrip(s))

LowerChar(c) ==
    CASE c = "T" -> "t" [] c = "R" -> "r" [] c = "U" -> "u" [] c = "E" -> "e"
      [] c = "F" -> "f" [] c = "A" -> "a" [] c = "L" -> "l" [] c = "S" -> "s"
      [] c = "I" -> "i" [] c = "N" -> "n"
      [] OTHER -> c

\* s.lower()
Lower(s) == [i \in 1..Len(s) |-> LowerChar(s[i])]

\* s.isdigit(): false for the empty string
IsDigit(s) == Len(s) > 0 /\ \A i \in 1..Len(s) : s[i] \in IsDigitChars

AllDecimal(s) == \A i \in 1..Len(s) : s[i] \in DecimalChars

RECURSIVE DecimalValue(_)
DecimalValue(s) ==
    IF Len(s) = 0 THEN 0
    ELSE 10 * DecimalValue(SubSeq(s, 1, Len(s) - 1)) + DigitValue(s[Len(s)])

Unsigned(s) ==
    IF Len(s) > 0 /\ s[1] \in {"+", "-"} THEN Tail(s) ELSE s

IsNegative(s) == Len(s) > 0 /\ s[1] = "-"

\* int(s) returns (otherwise it raises ValueError)
IntParses(s) ==
    LET body == Unsigned(Strip(s))
    IN  Len(body) > 0 /\ AllDecimal(body)

IntValue(s) ==
    LET t == Strip(s)
        n == DecimalValue(Unsigned(t))
    IN  IF IsNegative(t) THEN 0 - n ELSE n

STR_inf == <<"i", "n", "f">>
STR_infinity == <<"i", "n", "f", "i", "n", "i", "t", "y">>
STR_nan == <<"n", "a", "n">>

\* The parts of a float literal without its sign: mantissa and exponent.
Mantissa(body) == SplitOnce(Lower(body), "e")[1]
HasExponent(body) == Contains(Lower(body), "e")
Exponent(body) == SplitOnce(Lower(body), "e")[2]
IntPart(m) == SplitOnce(m, ".")[1]
FracPart(m) == IF Contains(m, ".") THEN SplitOnce(m, ".")[2] ELSE << >>

\* float(s) returns (otherwise it raises ValueError).  Digit grouping with
\* "_" is not modelled: the alphabet of the inputs has no underscore.
FloatParses(s) ==
    LET body == Unsigned(Strip(s))
        m == Mantissa(body)
    IN  \/ Lower(body) \in {STR_inf, STR_infinity, STR_nan}
        \/ /\ AllDecimal(IntPart(m))
           /\ AllDecimal(FracPart(m))
           /\ Len(IntPart(m)) + Len(FracPart(m)) > 0
           /\ HasExponent(body) =>
                /\ Len(Unsigned(Exponent(body))) > 0
                /\ AllDecimal(Unsigned(Exponent(body)))

RECURSIVE Pow10(_)
Pow10(n) == IF n <= 0 THEN 1 ELSE 10 * Pow10(n - 1)

\* A finite float is neg * num / 10^scale with num not a multiple of ten
\* unless scale = 0, so that equal numbers have equal representations.
RECURSIVE Normalize(_, _, _)
Normalize(neg, num, scale) ==
    IF scale < 0 THEN Normalize(neg, num * Pow10(0 - scale), 0)
    ELSE IF scale > 0 /\ num % 10 = 0 THEN Normalize(neg, num \div 10, scale - 1)
    ELSE [kind |-> "finite", neg |-> neg, num |-> num, scale |-> scale]

FloatValue(s) ==
    LET t == Strip(s)
        body == Unsigned(t)
        m == Mantissa(body)
        e == IF HasExponent(body)
             THEN IntValue(Exponent(body))
             ELSE 0
    IN  IF Lower(body) = STR_nan
        THEN [kind |-> "nan", neg |-> IsNegative(t), num |-> 0, scale |-> 0]
        ELSE IF Lower(body) \in {STR_inf, STR_infinity}
        THEN [kind |-> "inf", neg |-> IsNegative(t), num |-> 0, scale |-> 0]
        ELSE Normalize(IsNegative(t),
                       DecimalValue(IntPart(m) \o FracPart(m)),
                       Len(FracPart(m)) - e)

----------------------------------------------------------------------------
(* The values of the additional_settings mapping (Dict[str, Any])          *)

PyBool(b) == [type |-> "bool", b |-> b]
PyInt(n) == [type |-> "int", n |-> n]
PyFloat(f) == [type |-> "float", f |-> f]
PyStr(s) == [type |-> "str", s |-> s]

STR_true == <<"t", "r", "u", "e">>
STR_false == <<"f", "a", "l", "s", "e">>

----------------------------------------------------------------------------
(* The logging module's process-wide state                                 *)

LevelRank(l) ==
    CASE l = "NOTSET" -> 0 [] l = "DEBUG" -> 1 [] l = "INFO" -> 2
      [] l = "WARNING" -> 3 [] l = "ERROR" -> 4

\* The state of a process that has not configured logging: the root logger
\* at WARNING without handlers, every other logger at NOTSET.
FreshLogging ==
    [root_level |-> "WARNING", root_handlers |-> << >>,
     scrapit |-> "NOTSET", scrapy |-> "NOTSET"]

FORMAT_debug == "asctime name levelname [filename:lineno] message"
FORMAT_plain == "asctime name levelname message"

\* logging.basicConfig(level=..., format=..., force=...) without force
\* does nothing at all when the root logger already has handlers.
basicConfig_noforce(lg, level, format_str) ==
    IF Len(lg.root_handlers) > 0
    THEN lg
    ELSE [lg EXCEPT !.root_handlers = <<format_str>>, !.root_level = level]

\* logging.basicConfig(level=..., format=..., force=True): the handlers of
\* the root logger are removed, one new handler with the format is added
\* and the root level is set.
basicConfig(lg, level, format_str) ==
    [lg EXCEPT !.root_handlers = <<format_str>>, !.root_level = level]

setup_logging(lg, dbg) ==
    LET level == IF dbg THEN "DEBUG" ELSE "INFO"
        format_str == IF dbg THEN FORMAT_debug ELSE FORMAT_plain
        configured == basicConfig(lg, level, format_str)
    IN  IF dbg
        THEN [configured EXCEPT !.scrapit = "DEBUG", !.scrapy = "INFO"]
        ELSE [configured EXCEPT !.scrapit = "INFO", !.scrapy = "WARNING"]

\* The level that decides whether logger "scrapit.main" (the module's
\* logger, itself NOTSET) handles a record: its parent's, else the root's.
EffectiveLevel(lg) ==
    IF lg.scrapit # "NOTSET" THEN lg.scrapit ELSE lg.root_level

\* The records written for one logger.<level>(...) call of the module: one
\* per root handler, or logging's last-resort handler (WARNING and above)
\* when the root logger has none.
Emitted(lg, level, text, arg) ==
    IF LevelRank(level) < LevelRank(EffectiveLevel(lg)) THEN << >>
    ELSE IF Len(lg.root_handlers) = 0
    THEN IF LevelRank(level) >= LevelRank("WARNING")
         THEN <<[kind |-> "log", level |-> level, text |-> text,
                 arg |-> arg, format |-> "lastResort"]>>
         ELSE << >>
    ELSE [h \in 1..Len(lg.root_handlers) |->
            [kind |-> "log", level |-> level, text |-> text,
             arg |-> arg, format |-> lg.root_handlers[h]]]

Call(name, arg) ==
    [kind |-> "call", level |-> "", text |-> name, arg |-> arg, format |-> ""]

----------------------------------------------------------------------------
(* The command line and the environment of one invocation                  *)

MaxEntries == 2
DefaultPort == 9080

Entries ==
    { <<"a", "=", "t", "r", "u", "e">>,           \* a=true
      <<"a", "=", "F", "a", "l", "s", "e">>,      \* a=False
      <<"b", "=", "3">>,                          \* b=3
      <<"b", "=", "SUP2">>,                       \* b=(U+00B2)
      <<"b", "=", "AR3">>,                        \* b=(U+0663)
      <<"a", "=", "-", "5">>,                     \* a=-5
      <<"b", "=", "2", ".", "5">>,                \* b=2.5
      <<"c", "=", "h", "e", "l", "l", "o">>,      \* c=hello
      <<" ", "a", " ", "=", " ", "3", " ">>,      \* " a = 3 "
      <<"c", "=", " ", "t", "r", "u", "e">>,      \* "c= true"
      <<"c", "=", "x", "=", "y">>,                \* c=x=y
      <<"b", "=">>,                               \* b=
      <<"b", "a", "d">>,                          \* bad
      << >> }                                     \* an empty candidate

RECURSIVE Join(_)
Join(es) ==
    IF Len(es) = 0 THEN << >>
    ELSE IF Len(es) = 1 THEN es[1]
    ELSE es[1] \o <<",">> \o Join(Tail(es))

EntryLists == UNION { [1..n -> Entries] : n \in 1..MaxEntries }

\* The --settings values tried: absent, or up to MaxEntries entries joined
\* by commas.
SettingsStrings == {None} \cup { Some(Join(es)) : es \in EntryLists }

STR_example ==
    <<"a", "=", "t", "r", "u", "e", ",", "b", "a", "d", ",", "b", "=", "3">>

CWD == "/home/cwd"
PROJECT == "/srv/project"
MISSING == "/srv/missing"

\* A path that exists and is a regular file: every other path that is not
\* in dirs does not exist.
CONFIG_FILE == "/srv/project/scrapy.cfg"

Environments ==
    { [cwd |-> CWD, dirs |-> {PROJECT, CWD}, files |-> {CONFIG_FILE}],
      [cwd |-> CWD, dirs |-> {PROJECT}, files |-> {CONFIG_FILE}] }     \* the working directory is gone

\* Every settings string, with the other options at a few values.
ParseInputs ==
    [port : {DefaultPort}, host : {"0.0.0.0"},
     project : {Some(PROJECT), Some(MISSING)},
     settings : SettingsStrings,
     timeout : {None}, debug : {FALSE}, include_logs : {TRUE},
     env : {[cwd |-> CWD, dirs |-> {PROJECT, CWD}, files |-> {CONFIG_FILE}]}]

\* Every combination of the other options, with a few settings strings.
RunInputs ==
    [port : {0 - 1, 0, DefaultPort, 65535, 70000},
     host : {"0.0.0.0", "127.0.0.1"},
     project : {None, Some(""), Some(PROJECT), Some(MISSING),
                Some(CONFIG_FILE)},
     settings : {None, Some(<< >>), Some(STR_example),
                 Some(<<"b", "=", "SUP2">>)},
     timeout : {None, Some(0), Some(30)},
     debug : BOOLEAN, include_logs : BOOLEAN,
     env : Environments]

Inputs == ParseInputs \cup RunInputs

----------------------------------------------------------------------------
(* create_app and its collaborators                                        *)

\* scrapit.api.endpoints.create_router: an opaque collaborator; the router
\* it returns is known only by the arguments it was made from.
create_router(p, t, s, d, i) ==
    [project_path |-> p, timeout |-> t, additional_settings |-> s,
     debug |-> d, include_logs |-> i]

CORS ==
    [allow_origins |-> {"*"}, allow_credentials |-> TRUE,
     allow_methods |-> {"*"}, allow_headers |-> {"*"}]

\* create_app that forgets to forward the debug flag to the route factory
create_app_nodebug(p, t, s, d, i) ==
    [title |-> "ScrapyRT-Compatible API", version |-> "1.0.0",
     middleware |-> <<CORS>>,
     routers |-> <<create_router(p, t, s, FALSE, i)>>]

create_app(p, t, s, d, i) ==
    [title |-> "ScrapyRT-Compatible API", version |-> "1.0.0",
     middleware |-> <<CORS>>,
     routers |-> <<create_router(p, t, s, d, i)>>]

----------------------------------------------------------------------------
(* run: the settings parse                                                 *)

\* bool(x) of an Optional[str] or Optional[float]: None, "" and 0 are false
Truthy(opt, zero) == opt # None /\ opt[1] # zero

\* settings.split(",") if "," in settings else [settings]
SettingsList(s) == IF Contains(s, ",") THEN Split(s, ",") ELSE <<s>>

\* The if/elif/else of lines 138-146 raises ValueError out of run when the
\* value passes str.isdigit() and int() rejects it; only float() is tried.
CoerceRaises(value) ==
    /\ Lower(value) \notin {STR_true, STR_false}
    /\ IsDigit(value)
    /\ ~IntParses(value)

Coerce(value) ==
    IF Lower(value) \in {STR_true, STR_false}
    THEN PyBool(Lower(value) = STR_true)
    ELSE IF IsDigit(value) THEN PyInt(IntValue(value))
    ELSE IF FloatParses(value) THEN PyFloat(FloatValue(value))
    ELSE PyStr(value)

\* d[k] = v
SetItem(d, k, v) == [x \in (DOMAIN d) \cup {k} |-> IF x = k THEN v ELSE d[x]]

\* os.path.isdir(p)
isdir_exists(p) == p \in dirs \cup files

isdir(p) == p \in dirs

Terminal == {"done", "exited", "crashed"}

NoLocals ==
    /\ settings_list = << >>
    /\ idx = 0
    /\ additional_settings = << >>
    /\ stores = << >>
    /\ project_path = None
    /\ app = None
    /\ router_calls = << >>
    /\ server = None
    /\ exit_code = None
    /\ raised = None
    /\ trace = << >>

Invoked(in) ==
    /\ port = in.port
    /\ host = in.host
    /\ project = in.project
    /\ settings = in.settings
    /\ timeout = in.timeout
    /\ debug = in.debug
    /\ include_logs = in.include_logs
    /\ cwd = in.env.cwd
    /\ dirs = in.env.dirs
    /\ files = in.env.files

\* A process that has just entered run with some command line.
Init ==
    /\ \E in \in Inputs : Invoked(in)
    /\ logging = FreshLogging
    /\ pc = "start"
    /\ NoLocals

\* setup_logging moved out of the start of run
SetupLogging_skipped ==
    /\ pc = "start"
    /\ pc' = "parse"
    /\ UNCHANGED <<args, env, logging, locals, trace>>

\* line 128
SetupLogging ==
    /\ pc = "start"
    /\ logging' = setup_logging(logging, debug)
    /\ trace' = Append(trace, Call("setup_logging",
                                   [debug |-> debug, before |-> logging]))
    /\ pc' = "parse"
    /\ UNCHANGED <<args, env, locals>>

\* lines 130-133
BeginParse ==
    /\ pc = "parse"
    /\ additional_settings' = << >>
    /\ IF Truthy(settings, << >>)
       THEN /\ settings_list' = SettingsList(settings[1])
            /\ idx' = 1
            /\ pc' = "loop"
       ELSE /\ pc' = "resolve"
            /\ UNCHANGED <<settings_list, idx>>
    /\ UNCHANGED <<args, env, logging, stores, project_path, app,
                   router_calls, server, exit_code, raised, trace>>

\* lines 134-148: one iteration of the loop over settings_list.  Nothing
\* catches the ValueError of int(value): it leaves run, and the interpreter
\* ends the process with status 1.
ParseSetting ==
    /\ pc = "loop"
    /\ idx <= Len(settings_list)
    /\ LET setting == settings_list[idx]
           key == SplitOnce(setting, "=")[1]
           value == SplitOnce(setting, "=")[2]
           next_pc == IF idx = Len(settings_list) THEN "resolve" ELSE "loop"
       IN  IF Contains(setting, "=")
           THEN IF CoerceRaises(value)
                THEN /\ raised' = Some("ValueError")
                     /\ exit_code' = Some(1)
                     /\ pc' = "crashed"
                     /\ UNCHANGED <<additional_settings, stores, idx, trace>>
                ELSE /\ additional_settings' =
                            SetItem(additional_settings, Strip(key),
                                    Coerce(value))
                     /\ stores' = Append(stores,
                                         [key |-> Strip(key), raw |-> value,
                                          value |-> Coerce(value)])
                     /\ idx' = idx + 1
                     /\ pc' = next_pc
                     /\ UNCHANGED <<raised, exit_code, trace>>
           ELSE /\ trace' = trace \o Emitted(logging, "WARNING",
                                    "Ignoring invalid setting format", setting)
                /\ idx' = idx + 1
                /\ pc' = next_pc
                /\ UNCHANGED <<additional_settings, stores, raised, exit_code>>
    /\ UNCHANGED <<args, env, logging, settings_list, project_path, app,
                   router_calls, server>>

----------------------------------------------------------------------------
(* run: project path, assembly, server                                     *)

\* lines 150-154.  os.getcwd() raises FileNotFoundError when the working
\* directory has been removed; typer.Exit(code=1) ends the process with 1.
ResolveProject ==
    /\ pc = "resolve"
    /\ IF ~Truthy(project, "") /\ cwd \notin dirs
       THEN /\ raised' = Some("FileNotFoundError")
            /\ exit_code' = Some(1)
            /\ pc' = "crashed"
            /\ UNCHANGED <<project_path, trace>>
       ELSE LET path == IF Truthy(project, "") THEN project[1] ELSE cwd
            IN  /\ project_path' = Some(path)
                /\ IF ~isdir(path)
                   THEN /\ trace' = Append(trace, Call("os.path.isdir", path))
                                    \o Emitted(logging, "ERROR",
                                         "Project path does not exist", path)
                        /\ exit_code' = Some(1)
                        /\ pc' = "exited"
                   ELSE /\ trace' = Append(trace, Call("os.path.isdir", path))
                        /\ pc' = "announce"
                        /\ UNCHANGED exit_code
                /\ UNCHANGED raised
    /\ UNCHANGED <<args, env, logging, settings_list, idx,
                   additional_settings, stores, app, router_calls, server>>

\* lines 156-164
Announce ==
    /\ pc = "announce"
    /\ trace' = trace
         \o Emitted(logging, "INFO", "Starting ScrapyRT-compatible API server", << >>)
         \o Emitted(logging, "INFO", "Host, Port", <<host, port>>)
         \o Emitted(logging, "INFO", "Project path", project_path[1])
         \o Emitted(logging, "INFO", "Debug mode", debug)
         \o Emitted(logging, "INFO", "Include logs in responses", include_logs)
         \o (IF additional_settings # << >>
             THEN Emitted(logging, "INFO", "Additional settings",
                          additional_settings)
             ELSE << >>)
         \o (IF Truthy(timeout, 0)
             THEN Emitted(logging, "INFO", "Default timeout", timeout[1])
             ELSE << >>)
    /\ pc' = "create"
    /\ UNCHANGED <<args, env, logging, locals>>

\* lines 166-173, with the body of create_app (lines 67-92)
CreateApp ==
    /\ pc = "create"
    /\ LET made == create_app(project_path[1], timeout, additional_settings,
                              debug, include_logs)
       IN  /\ app' = Some(made)
           /\ router_calls' = router_calls \o made.routers
           /\ trace' = trace \o
                <<Call("create_app", project_path[1]),
                  Call("create_router", made.routers[1]),
                  Call("include_router", << >>)>>
    /\ pc' = "serve"
    /\ UNCHANGED <<args, env, logging, settings_list, idx,
                   additional_settings, stores, project_path, server,
                   exit_code, raised>>

\* lines 175-182: uvicorn.run is entered and serves
UvicornRun ==
    /\ pc = "serve"
    /\ server' = Some([app |-> app[1], host |-> host, port |-> port,
                       log_level |-> IF debug THEN "debug" ELSE "info"])
    /\ trace' = Append(trace, Call("uvicorn.run", <<host, port>>))
    /\ pc' = "serving"
    /\ UNCHANGED <<args, env, logging, settings_list, idx,
                   additional_settings, stores, project_path, app,
                   router_calls, exit_code, raised>>

\* uvicorn.run returns when the server is shut down; run returns after it
ServerStops ==
    /\ pc = "serving"
    /\ exit_code' = Some(0)
    /\ pc' = "done"
    /\ UNCHANGED <<args, env, logging, settings_list, idx,
                   additional_settings, stores, project_path, app,
                   router_calls, server, raised, trace>>

\* uvicorn.run fails (the address cannot be bound): fatal to the process
ServerFails ==
    /\ pc = "serving"
    /\ exit_code' = Some(1)
    /\ pc' = "exited"
    /\ UNCHANGED <<args, env, logging, settings_list, idx,
                   additional_settings, stores, project_path, app,
                   router_calls, server, raised, trace>>

\* run is over: its frame is gone, the process and its logging state stay.
\* (The options are left at their defaults, the value they have when no
\* command line is given.)
Return ==
    /\ pc \in Terminal
    /\ pc' = "idle"
    /\ port' = DefaultPort
    /\ host' = "0.0.0.0"
    /\ project' = None
    /\ settings' = None
    /\ timeout' = None
    /\ debug' = FALSE
    /\ include_logs' = TRUE
    /\ settings_list' = << >>
    /\ idx' = 0
    /\ additional_settings' = << >>
    /\ stores' = << >>
    /\ project_path' = None
    /\ app' = None
    /\ router_calls' = << >>
    /\ server' = None
    /\ exit_code' = None
    /\ raised' = None
    /\ trace' = << >>
    /\ UNCHANGED <<env, logging>>

\* The command is invoked again in the same process, with any command line
\* and in any environment.
Reinvoke ==
    /\ pc = "idle"
    /\ \E in \in Inputs :
         /\ port' = in.port
         /\ host' = in.host
         /\ project' = in.project
         /\ settings' = in.settings
         /\ timeout' = in.timeout
         /\ debug' = in.debug
         /\ include_logs' = in.include_logs
         /\ cwd' = in.env.cwd
         /\ dirs' = in.env.dirs
         /\ files' = in.env.files
    /\ pc' = "start"
    /\ UNCHANGED <<logging, locals, trace>>

Next ==
    \/ SetupLogging
    \/ BeginParse
    \/ ParseSetting
    \/ ResolveProject
    \/ Announce
    \/ CreateApp
    \/ UvicornRun
    \/ ServerStops
    \/ ServerFails
    \/ Return
    \/ Reinvoke

Spec == Init /\ [][Next]_vars

----------------------------------------------------------------------------
(* Vocabulary of the properties                                            *)

Called(name) ==
    \E i \in DOMAIN trace : trace[i].kind = "call" /\ trace[i].text = name

CalledBefore(name, i) ==
    \E j \in 1..(i - 1) : trace[j].kind = "call" /\ trace[j].text = name

IsCall(e, names) == e.kind = "call" /\ e.text \in names

\* run is executing or has ended (its arguments and locals are in place)
InRun == pc # "idle"

\* the settings parse is over, one way or another
ParseOver == pc \notin {"idle", "start", "parse", "loop"}

\* The candidate entries of the settings string: none when the option is
\* absent or empty.
Candidates ==
    IF settings # None /\ settings[1] # << >>
    THEN SettingsList(settings[1])
    ELSE << >>

HasEquals(e) == Contains(e, "=")
WellFormed == SelectSeq(Candidates, HasEquals)

\* e is k = v with no "=" in k
SplitsInto(e, k, v) ==
    /\ e = k \o <<"=">> \o v
    /\ ~Contains(k, "=")

KeyOf(e) == Strip(SubSeq(e, 1, FirstIndex(e, "=") - 1))
ValueOf(e) == SubSeq(e, FirstIndex(e, "=") + 1, Len(e))

\* candidate i is the last one that sets its key
LastForKey(i) ==
    \A j \in (i + 1)..Len(Candidates) :
        HasEquals(Candidates[j]) => KeyOf(Candidates[j]) # KeyOf(Candidates[i])

\* The project path as run resolves it: an empty --project counts as absent.
Resolved ==
    IF project # None /\ project[1] # "" THEN project[1] ELSE cwd

\* The project path as the claims word it: --project whenever it is given.
GivenPath == IF project # None THEN project[1] ELSE cwd

NotStarted ==
    /\ pc \notin {"announce", "create", "serve", "serving", "done"}
    /\ app = None
    /\ server = None
    /\ router_calls = << >>
    /\ ~Called("create_app")
    /\ ~Called("create_router")
    /\ ~Called("uvicorn.run")
    /\ pc \in Terminal => exit_code = Some(1)

----------------------------------------------------------------------------
(* C1 *)

\* C1 (as stated): when the project path - the --project value if given,
\* otherwise the working directory - is not an existing directory, the run
\* ends with exit code 1 and neither create_app nor uvicorn.run is invoked.
C1_GivenPathNotDirNeverStarts ==
    (InRun /\ GivenPath \notin dirs) => NotStarted

\* C1 (amended): when the project path - the --project value if given and
\* not empty, otherwise the working directory - is not an existing
\* directory, the run never reaches the announcement, create_app or
\* uvicorn.run, and when it has ended its exit code is 1, whatever the other
\* options are.
C1_ResolvedPathNotDirNeverStarts ==
    (InRun /\ Resolved \notin dirs) => NotStarted

\* C1 witness: a run with --project naming no directory has exited with 1
\* after logging the error.
C1_Witness ==
    /\ pc = "exited"
    /\ project = Some(MISSING)
    /\ Resolved \notin dirs
    /\ exit_code = Some(1)
    /\ \E i \in DOMAIN trace :
         trace[i].kind = "log" /\ trace[i].level = "ERROR"

----------------------------------------------------------------------------
(* C2 *)

\* C2: setup_logging completes before any log record is emitted, the
\* directory check completes before create_app is invoked, and create_app
\* (route factory and route mounting included) completes before
\* uvicorn.run; no later stage is reached without the earlier ones.
C2_StartupOrder ==
    /\ \A i \in DOMAIN trace :
         /\ trace[i].kind = "log" => CalledBefore("setup_logging", i)
         /\ IsCall(trace[i], {"os.path.isdir"}) =>
                CalledBefore("setup_logging", i)
         /\ IsCall(trace[i], {"create_app", "create_router", "include_router"})
                => CalledBefore("os.path.isdir", i)
         /\ IsCall(trace[i], {"uvicorn.run"}) =>
                /\ CalledBefore("create_app", i)
                /\ CalledBefore("create_router", i)
                /\ CalledBefore("include_router", i)
    /\ pc \notin {"idle", "start"} => Called("setup_logging")
    /\ pc \in {"announce", "create", "serve", "serving", "done"} =>
         Called("os.path.isdir")
    /\ pc \in {"serve", "serving", "done"} =>
         Called("include_router") /\ app # None
    /\ pc \in {"serving", "done"} => Called("uvicorn.run") /\ server # None
    /\ server # None => app # None /\ project_path # None
    /\ app # None => project_path # None /\ project_path[1] \in dirs

\* C2 witness: a run that warned about a malformed entry is serving.
C2_Witness ==
    /\ pc = "serving"
    /\ \E i \in DOMAIN trace :
         trace[i].kind = "log" /\ trace[i].level = "WARNING"
    /\ Called("uvicorn.run")

----------------------------------------------------------------------------
(* C3 *)

\* C3: every candidate without "=" causes exactly one warning naming it and
\* stores nothing, every candidate with "=" has its key in the mapping, and
\* the run goes on to the project path instead of ending in the parse.
C3_MalformedEntriesAreDroppedNotFatal ==
    ParseOver =>
        /\ raised # Some("ValueError")
        /\ Len(stores) = Len(WellFormed)
        /\ \A i \in DOMAIN Candidates :
             IF HasEquals(Candidates[i])
             THEN KeyOf(Candidates[i]) \in DOMAIN additional_settings
             ELSE Cardinality({ n \in DOMAIN trace :
                                  /\ trace[n].kind = "log"
                                  /\ trace[n].level = "WARNING"
                                  /\ trace[n].arg = Candidates[i] })
                  = Cardinality({ j \in DOMAIN Candidates :
                                    Candidates[j] = Candidates[i] })

----------------------------------------------------------------------------
(* C4 *)

ExpectedType(v) ==
    IF Lower(v) \in {STR_true, STR_false} THEN "bool"
    ELSE IF Len(v) > 0 /\ \A i \in DOMAIN v : v[i] \in IsDigitChars THEN "int"
    ELSE IF FloatParses(v) THEN "float"
    ELSE "str"

HasExpectedValue(x, v) ==
    /\ x.type = ExpectedType(v)
    /\ x.type = "bool" => x.b = (Lower(v) = STR_true)
    /\ x.type = "int" => x.n = IntValue(v)
    /\ x.type = "float" => x.f = FloatValue(v)
    /\ x.type = "str" => x.s = v

\* C4: for every entry key=value whose value has no surrounding whitespace,
\* the value stored under the key is a boolean if the value is true/false
\* in any case, otherwise an integer if it is all digits, otherwise a float
\* if it parses as one, otherwise the string itself.
C4_TypeByPrecedence ==
    ParseOver =>
        \A i \in DOMAIN Candidates :
            LET e == Candidates[i]
            IN  (HasEquals(e) /\ Strip(ValueOf(e)) = ValueOf(e) /\ LastForKey(i))
                => /\ KeyOf(e) \in DOMAIN additional_settings
                   /\ HasExpectedValue(additional_settings[KeyOf(e)],
                                       ValueOf(e))

----------------------------------------------------------------------------
(* C5 *)

\* C5: what is stored for an entry is what is stored for the entry with the
\* value's surrounding whitespace removed, under the key with its
\* surrounding whitespace removed.
C5_InferenceOnTrimmedValue ==
    \A j \in DOMAIN stores :
        /\ stores[j].key = Strip(stores[j].key)
        /\ ~CoerceRaises(Strip(stores[j].raw)) =>
               stores[j].value = Coerce(Strip(stores[j].raw))

----------------------------------------------------------------------------
(* C6 *)

\* C6: no exception aborts the settings parse: every candidate is processed
\* and the run proceeds to the project path.
C6_NoExceptionAbortsParse ==
    /\ raised # Some("ValueError")
    /\ ParseOver => (Candidates # << >> => idx = Len(Candidates) + 1)

----------------------------------------------------------------------------
(* C7 *)

ExpectedLogging(d) ==
    IF d
    THEN [root_level |-> "DEBUG", root_handlers |-> <<FORMAT_debug>>,
          scrapit |-> "DEBUG", scrapy |-> "INFO"]
    ELSE [root_level |-> "INFO", root_handlers |-> <<FORMAT_plain>>,
          scrapit |-> "INFO", scrapy |-> "WARNING"]

\* C7: once setup_logging has been called in a run, the logging state is
\* the one a single call with the run's debug value gives a fresh process,
\* whatever earlier calls in the process configured: scrapy at INFO and
\* scrapit at DEBUG with debug, WARNING and INFO without.
C7_ForceReconfigure ==
    pc \notin {"idle", "start"} =>
        /\ logging = ExpectedLogging(debug)
        /\ logging = setup_logging(FreshLogging, debug)
        /\ \A i \in DOMAIN trace :
             trace[i].kind = "log" =>
                trace[i].format = IF debug THEN FORMAT_debug ELSE FORMAT_plain

\* C7 witness: setup_logging(debug=False) has run in a process that an
\* earlier invocation had configured with debug=True.
C7_Witness ==
    /\ pc = "parse"
    /\ ~debug
    /\ trace[1].text = "setup_logging"
    /\ trace[1].arg.before = ExpectedLogging(TRUE)
    /\ logging = ExpectedLogging(FALSE)

----------------------------------------------------------------------------
(* C8 *)

\* C8: once create_app has been called, create_router has been called
\* exactly once, with the resolved project path, the timeout as given, the
\* mapping the parse produced, debug and include_logs; nothing of it has
\* changed since, and uvicorn.run gets the host and port as given.
C8_FactoryGetsTheConfiguration ==
    app # None =>
        /\ Len(router_calls) = 1
        /\ router_calls[1] =
              [project_path |-> Resolved, timeout |-> timeout,
               additional_settings |-> additional_settings,
               debug |-> debug, include_logs |-> include_logs]
        /\ project_path = Some(Resolved)
        /\ app[1].routers = router_calls
        /\ DOMAIN additional_settings = { stores[j].key : j \in DOMAIN stores }
        /\ \A j \in DOMAIN stores :
             (\A n \in (j + 1)..Len(stores) : stores[n].key # stores[j].key)
             => additional_settings[stores[j].key] = stores[j].value
        /\ server # None =>
             /\ server[1].host = host
             /\ server[1].port = port
             /\ server[1].app = app[1]

\* C8 witness: a debug run with settings and a timeout is serving.
C8_Witness ==
    /\ pc = "serving"
    /\ debug
    /\ ~include_logs
    /\ timeout = Some(30)
    /\ additional_settings # << >>
    /\ Len(router_calls) = 1

----------------------------------------------------------------------------
(* C9 *)

\* C9: the port handed to uvicorn.run lies in 1..65535.
C9_PortInRange ==
    server # None => server[1].port \in 1..65535

----------------------------------------------------------------------------
(* C10 *)

\* C10: the candidates are the pieces of the settings string between its
\* commas, and every candidate with "=" gives exactly one entry, whose key
\* is the text before its first "=" and whose value is made from all the
\* text after it.
C10_SplitOnFirstEquals ==
    ParseOver =>
        /\ settings_list = Candidates
        /\ Candidates # << >> =>
             /\ Join(Candidates) = settings[1]
             /\ \A i \in DOMAIN Candidates : ~Contains(Candidates[i], ",")
        /\ Len(stores) = Len(WellFormed)
        /\ \A j \in DOMAIN WellFormed :
             j \in DOMAIN stores =>
               \E n \in DOMAIN WellFormed[j] :
                 /\ SplitsInto(WellFormed[j],
                               SubSeq(WellFormed[j], 1, n - 1),
                               SubSeq(WellFormed[j], n + 1, Len(WellFormed[j])))
                 /\ stores[j].key = Strip(SubSeq(WellFormed[j], 1, n - 1))
                 /\ stores[j].raw =
                       SubSeq(WellFormed[j], n + 1, Len(WellFormed[j]))

====
